---- MODULE Spec2Model ----
(***************************************************************************)
(* The poll loop of the Geist PDU exporter (src/src/main.py): fetch the    *)
(* PDU's data.xml, walk its devices, fields and outlets, and write the     *)
(* readings into fourteen labelled Prometheus instruments.                 *)
(*                                                                         *)
(* An XML element is a record [tag, attrib, children]; attrib is a record  *)
(* whose DOMAIN is the set of attributes present, so that attrib[k] on a   *)
(* missing k is Python's KeyError.  Attribute values that are read as      *)
(* numbers are sequences of characters, parsed by ParseFloat.              *)
(***************************************************************************)
EXTENDS Integers, Sequences, FiniteSets, TLC

VARIABLES
    pc,          \* where the poll loop stands
    net,         \* how this cycle's GET ended
    resp,        \* fetch()'s local resp: Unbound or Bound
    doc,         \* the text of the last response received
    di, ci, oi, ai,  \* the device, child, outlet and outlet metric at hand
    store,       \* instrument -> (label-set -> value)
    exc,         \* the exception that left start_export_loop, if any
    startStore,  \* the store when the cycle began
    warned,      \* a warning was logged in this cycle
    same,        \* this cycle's response is the previous cycle's once more
    again,       \* the PDU's next response will be this one once more
    lastGood,    \* outlet label-set -> status in the last document walked to its end
    deviceSets,  \* device gauge set() calls made in this cycle
    outletSets,  \* outlet gauge set() and status state() calls made in this cycle
    pdu,         \* which documents this PDU answers with
    scraped      \* the sample a scrape in progress has read, if any

vars == <<pc, net, resp, doc, di, ci, oi, ai, store, exc,
          startStore, warned, same, again, lastGood,
          deviceSets, outletSets, pdu, scraped>>

(***************************************************************************)
(* Bounds of the documents the PDU may answer with.                        *)
(***************************************************************************)
MaxDevices == 2
MaxFields == 1
MaxOutlets == 1

(***************************************************************************)
(* Exporter.__init__: the label schemas and the instrument tables.         *)
(***************************************************************************)
device_labels == <<"id", "type">>

outlet_labels == <<"name", "num", "url">>

device_metrics ==
    [k \in {"KWatt-hrs-Total", "KWatt-hrs-A", "RealPower-Total", "RealPower-A",
            "Volts-A", "Volt-Pk-A", "Amps-A", "Amps-Pk-A", "ApPower-A",
            "Pwr-Factor%-A"} |->
        CASE k = "KWatt-hrs-Total" -> "pdu_kwh_total"
          [] k = "KWatt-hrs-A"     -> "pdu_kwh"
          [] k = "RealPower-Total" -> "pdu_realpower_total"
          [] k = "RealPower-A"     -> "pdu_realpower"
          [] k = "Volts-A"         -> "pdu_volts"
          [] k = "Volt-Pk-A"       -> "pdu_volts_peak"
          [] k = "Amps-A"          -> "pdu_amps"
          [] k = "Amps-Pk-A"       -> "pdu_amps_peak"
          [] k = "ApPower-A"       -> "pdu_apparent_power"
          [] k = "Pwr-Factor%-A"   -> "pdu_power_factor_percent"]

None == "None"

\* A lookup that falls back on a gauge instead of None.
DeviceMetricOrDefault(key) ==
    IF key \in DOMAIN device_metrics THEN device_metrics[key] ELSE "pdu_realpower"

\* self.device_metrics.get(key)
DeviceMetric(key) ==
    IF key \in DOMAIN device_metrics THEN device_metrics[key] ELSE None

\* The outlet gauges walked from the last to the first.
outlet_metrics_reversed ==
    << [attr |-> "watts",    metric |-> "pdu_outlet_watts"],
       [attr |-> "kwatthrs", metric |-> "pdu_outlet_kwh_total"],
       [attr |-> "amps",     metric |-> "pdu_outlet_amps"] >>

\* The dict keeps insertion order: amps, kwatthrs, watts.
outlet_metrics ==
    << [attr |-> "amps",     metric |-> "pdu_outlet_amps"],
       [attr |-> "kwatthrs", metric |-> "pdu_outlet_kwh_total"],
       [attr |-> "watts",    metric |-> "pdu_outlet_watts"] >>

outlet_status == "pdu_outlet_status"

states == <<"On", "Off">>

Range(f) == {f[x] : x \in DOMAIN f}

DeviceGauges == Range(device_metrics)

OutletGauges == {outlet_metrics[i].metric : i \in DOMAIN outlet_metrics}

Instruments == DeviceGauges \cup OutletGauges \cup {outlet_status}

(***************************************************************************)
(* float(): a decimal literal (optional sign, digits, at most one point,   *)
(* at least one digit) is read as the number it denotes; anything else is  *)
(* a ValueError.  A number is <<mantissa, exponent>> with the mantissa     *)
(* free of trailing zeros, so "5" and "5.0" are the same number.           *)
(***************************************************************************)
ValueError == <<>>

Digits == <<"0", "1", "2", "3", "4", "5", "6", "7", "8", "9">>

IsDigit(c) == \E d \in DOMAIN Digits : Digits[d] = c

DigitVal(c) == (CHOOSE d \in DOMAIN Digits : Digits[d] = c) - 1

RECURSIVE Norm(_, _)
Norm(m, e) ==
    IF m = 0 THEN <<0, 0>>
    ELSE IF m % 10 = 0 THEN Norm(m \div 10, e + 1)
    ELSE <<m, e>>

RECURSIVE DigitsVal(_, _)
DigitsVal(s, acc) ==
    IF s = <<>> THEN acc ELSE DigitsVal(Tail(s), 10 * acc + DigitVal(Head(s)))

ParseFloat(s) ==
    LET neg    == s # <<>> /\ Head(s) = "-"
        body   == IF s # <<>> /\ Head(s) \in {"-", "+"} THEN Tail(s) ELSE s
        points == {i \in DOMAIN body : body[i] = "."}
        digs   == SelectSeq(body, LAMBDA c : c # ".")
        frac   == IF points = {} THEN 0
                  ELSE Len(body) - (CHOOSE i \in points : TRUE)
        m      == DigitsVal(digs, 0)
    IN  IF Cardinality(points) > 1 \/ digs = <<>>
           \/ \E i \in DOMAIN digs : ~IsDigit(digs[i])
        THEN ValueError
        ELSE Norm(IF neg THEN 0 - m ELSE m, 0 - frac)

Zero == Norm(0, 0)

(***************************************************************************)
(* The documents the PDU may answer with.  The i-th device of a document   *)
(* has id i.  A defective element (an attribute missing, a reading that is *)
(* no number, a status that is no state) aborts the walk where it is read, *)
(* so a document carries at most one of them.                              *)
(***************************************************************************)
Elem(tag, attrib, children) ==
    [tag |-> tag, attrib |-> attrib, children |-> children]

Str(n) == Digits[n + 1]

Reading1 == <<"1", "2", "3", ".", "4">>

Reading2 == <<"5", ".", "0">>

NotANumber == <<"a", "b", "c">>

GoodFields ==
    { Elem("field", [key |-> "RealPower-A", value |-> Reading1], <<>>),
      Elem("field", [key |-> "RealPower-A", value |-> Reading2], <<>>),
      Elem("field", [key |-> "Foo-Bar", value |-> Reading2], <<>>) }

BadFields ==
    { Elem("field", [key |-> "RealPower-A", value |-> NotANumber], <<>>),
      Elem("field", [key |-> "RealPower-A"], <<>>),
      Elem("field", [value |-> Reading1], <<>>) }

OutletAttrib(num, status) ==
    [name |-> "out", num |-> Str(num), url |-> "u",
     amps |-> Reading2, kwatthrs |-> Reading1, watts |-> Reading2,
     status |-> status]

Without(attrib, k) == [a \in DOMAIN attrib \ {k} |-> attrib[a]]

GoodOutlets(num) ==
    { Elem("outlet", OutletAttrib(num, s), <<>>) : s \in {"On", "Off"} }

BadOutlets(num) ==
    { Elem("outlet", OutletAttrib(num, "Tripped"), <<>>),
      Elem("outlet", Without(OutletAttrib(num, "On"), "amps"), <<>>),
      Elem("outlet", [OutletAttrib(num, "On") EXCEPT !.watts = NotANumber], <<>>),
      Elem("outlet", Without(OutletAttrib(num, "Off"), "num"), <<>>) }

\* The sequences over Good(1), Good(2), ... of length k, and those with
\* exactly one element, at some position i, taken from Bad(i) instead.
RECURSIVE AllGood(_, _)
AllGood(Good(_), k) ==
    IF k = 0 THEN {<<>>}
    ELSE {Append(s, x) : s \in AllGood(Good, k - 1), x \in Good(k)}

RECURSIVE OneBad(_, _, _)
OneBad(Good(_), Bad(_), k) ==
    IF k = 0 THEN {}
    ELSE {Append(s, x) : s \in OneBad(Good, Bad, k - 1), x \in Good(k)}
         \cup {Append(s, x) : s \in AllGood(Good, k - 1), x \in Bad(k)}

GoodFieldAt(i) == GoodFields

BadFieldAt(i) == BadFields

GoodFieldSeqs == UNION {AllGood(GoodFieldAt, k) : k \in 0..MaxFields}

BadFieldSeqs == UNION {OneBad(GoodFieldAt, BadFieldAt, k) : k \in 0..MaxFields}

GoodOutletSeqs == UNION {AllGood(GoodOutlets, k) : k \in 0..MaxOutlets}

BadOutletSeqs == UNION {OneBad(GoodOutlets, BadOutlets, k) : k \in 0..MaxOutlets}

\* A device's children: its fields and then, when it has one, its outlets
\* container.
Children(FieldSeqs, OutletSeqs, bare) ==
    (IF bare THEN FieldSeqs ELSE {})
    \cup {fs \o <<Elem("outlets", <<>>, os)>> : fs \in FieldSeqs, os \in OutletSeqs}

GoodChildren == Children(GoodFieldSeqs, GoodOutletSeqs, TRUE)

BadChildren ==
    Children(BadFieldSeqs, GoodOutletSeqs, TRUE)
    \cup Children(GoodFieldSeqs, BadOutletSeqs, FALSE)

DeviceAttrib(i) == [id |-> Str(i), type |-> "pdu"]

GoodDevices(i) == {Elem("device", DeviceAttrib(i), c) : c \in GoodChildren}

BadDevices(i) ==
    {Elem("device", DeviceAttrib(i), c) : c \in BadChildren}
    \cup {Elem("device", Without(DeviceAttrib(i), k), c) :
            k \in {"id", "type"}, c \in GoodChildren}

GoodDeviceSeqs == UNION {AllGood(GoodDevices, k) : k \in 0..MaxDevices}

BadDeviceSeqs == UNION {OneBad(GoodDevices, BadDevices, k) : k \in 0..MaxDevices}

RootOf(ds) == Elem("root", <<>>, <<Elem("devices", <<>>, ds)>>)

\* The well-formed documents.
GoodRoots == {RootOf(ds) : ds \in GoodDeviceSeqs}

\* With them, those with a defective element and the one without a devices
\* container.
Roots ==
    GoodRoots \cup {RootOf(ds) : ds \in BadDeviceSeqs} \cup {Elem("root", <<>>, <<>>)}

\* The recognized keys, in the order of the device_metrics dict.
device_keys ==
    <<"KWatt-hrs-Total", "KWatt-hrs-A", "RealPower-Total", "RealPower-A",
      "Volts-A", "Volt-Pk-A", "Amps-A", "Amps-Pk-A", "ApPower-A", "Pwr-Factor%-A">>

\* A device that carries every recognized key once.
FullFields ==
    [k \in DOMAIN device_keys |->
        Elem("field", [key |-> device_keys[k], value |-> Reading1], <<>>)]

FullDevice(i, os, bare) ==
    Elem("device", DeviceAttrib(i),
         IF bare THEN FullFields ELSE FullFields \o <<Elem("outlets", <<>>, os)>>)

\* N such devices with M outlets each, and N such devices without an
\* outlets container.
FullRoots ==
    {RootOf([i \in 1..n |-> FullDevice(i, <<>>, TRUE)]) : n \in 0..MaxDevices}
    \cup {RootOf([i \in 1..n |->
                    FullDevice(i, [o \in 1..m |-> Elem("outlet", OutletAttrib(o, "On"), <<>>)],
                               FALSE)]) :
             n \in 0..MaxDevices, m \in 0..MaxOutlets}

\* resp.text: the text of an XML document, or text that is no XML.
Xml(root) == [xml |-> TRUE, root |-> root]

Malformed == [xml |-> FALSE, root |-> Elem("", <<>>, <<>>)]

Bodies == {Xml(r) : r \in Roots} \cup {Malformed}

FullBodies == {Xml(r) : r \in FullRoots}

\* The documents of a PDU with one device at most.
SmallBodies ==
    {Xml(RootOf(ds)) :
        ds \in {<<>>} \cup {<<d>> : d \in GoodDevices(1) \cup BadDevices(1)}}

\* The documents a PDU answers with, by the kind of PDU.
Answers(kind) ==
    CASE kind = "any"   -> Bodies
      [] kind = "full"  -> FullBodies
      [] kind = "small" -> SmallBodies

NoBody == [xml |-> FALSE, root |-> Elem("<none>", <<>>, <<>>)]

Unbound == "unbound"

Bound == "bound"

(***************************************************************************)
(* The element tree, as the walk reads it.                                 *)
(***************************************************************************)
\* Element.find(tag): the index of the first child with that tag, 0 for None.
Find(e, tag) ==
    LET hits == {i \in DOMAIN e.children : e.children[i].tag = tag}
    IN  IF hits = {} THEN 0 ELSE CHOOSE i \in hits : \A j \in hits : i <= j

Root == doc.root

DevicesOf(root) == root.children[Find(root, "devices")].children

Device == DevicesOf(Root)[di]

\* A guard that asks only whether the container is there.
HasOutletsContainer(device) ==
    Find(device, "outlets") # 0

HasOutlets(device) ==
    /\ Find(device, "outlets") # 0
    /\ device.children[Find(device, "outlets")].children # <<>>

OutletsOf(device) == device.children[Find(device, "outlets")].children

Child == Device.children[ci]

Outlet == OutletsOf(Device)[oi]

\* {label: element.attrib[label] for label in names}
LabelsOf(e, names) == [l \in Range(names) |-> e.attrib[l]]

\* {**a, **b}: b wins where both have a key.
\* A merge that loses the device's labels.
MergeOutletOnly(a, b) == a

Merge(a, b) == b @@ a

DeviceLabels == LabelsOf(Device, device_labels)

OutletLabels == Merge(LabelsOf(Outlet, outlet_labels), DeviceLabels)

(***************************************************************************)
(* prometheus_client, as main.py uses it.  labels() returns the child at a *)
(* label-set and creates it first when it is new: a gauge child starts at  *)
(* 0, an Enum child in its first state.  The Enum holds the index of its   *)
(* state.                                                                  *)
(***************************************************************************)
Default(metric) == IF metric = outlet_status THEN 0 ELSE Zero

\* A labels() that forgets the metric's other children.
LabelsFresh(st, metric, l) ==
    IF l \in DOMAIN st[metric] THEN [st EXCEPT ![metric] = (l :> @[l])]
    ELSE [st EXCEPT ![metric] = (l :> Default(metric))]

Labels(st, metric, l) ==
    IF l \in DOMAIN st[metric] THEN st
    ELSE [st EXCEPT ![metric] = (l :> Default(metric)) @@ @]

RECURSIVE Pow10(_)
Pow10(n) == IF n = 0 THEN 1 ELSE 10 * Pow10(n - 1)

Add(a, b) ==
    LET e == IF a[2] < b[2] THEN a[2] ELSE b[2]
    IN  Norm(a[1] * Pow10(a[2] - e) + b[1] * Pow10(b[2] - e), e)

\* Gauge.inc in the place of Gauge.set.
GaugeInc(st, metric, l, v) == [st EXCEPT ![metric][l] = Add(@, v)]

GaugeSet(st, metric, l, v) == [st EXCEPT ![metric][l] = v]

StateIndex(s) == (CHOOSE i \in DOMAIN states : states[i] = s) - 1

\* A state() that leaves the child in the state it has.
EnumStateKept(st, l, s) == st

EnumState(st, l, s) == [st EXCEPT ![outlet_status][l] = StateIndex(s)]

StateName(v) == states[v + 1]

(***************************************************************************)
(* Control.                                                                *)
(***************************************************************************)
Goto(p, d, c, o, a) ==
    /\ pc' = p
    /\ di' = d
    /\ ci' = c
    /\ oi' = o
    /\ ai' = a

\* An exception nobody catches leaves process() and start_export_loop().
Raise(e) ==
    /\ pc' = "crashed"
    /\ exc' = e
    /\ UNCHANGED <<di, ci, oi, ai>>

\* for device in devices
NextDevice(d) ==
    IF d <= Len(DevicesOf(Root)) THEN Goto("device", d, 0, 0, 0)
    ELSE Goto("done", 0, 0, 0, 0)

\* for outlet in outlets
NextOutlet(o) ==
    IF o <= Len(OutletsOf(Device)) THEN Goto("outlet", di, 0, o, 0)
    ELSE NextDevice(di + 1)

\* for child in device, and after it for outlet in outlets
NextChild(c) ==
    IF c <= Len(Device.children) THEN Goto("child", di, c, 0, 0)
    ELSE NextOutlet(1)

NoSample == <<>>

Start ==
    /\ pc = "loop"
    /\ net = "pending"
    /\ resp = Unbound
    /\ doc = NoBody
    /\ di = 0 /\ ci = 0 /\ oi = 0 /\ ai = 0
    /\ store = [m \in Instruments |-> <<>>]
    /\ exc = None
    /\ startStore = [m \in Instruments |-> <<>>]
    /\ warned = FALSE
    /\ same = FALSE
    /\ again = FALSE
    /\ lastGood = <<>>
    /\ deviceSets = 0
    /\ outletSets = 0
    /\ scraped = NoSample

Init == Start /\ pdu = "any"

\* start_export_loop calls process(), which calls fetch().
Loop ==
    /\ pc = "loop"
    /\ pc' = "get"
    /\ net' = "pending"
    /\ resp' = Unbound
    /\ startStore' = store
    /\ warned' = FALSE
    /\ UNCHANGED <<doc, di, ci, oi, ai, store, exc, same, again, lastGood>>
    /\ UNCHANGED <<deviceSets, outletSets, pdu, scraped>>

\* requests.get returns a response.
GetResponse ==
    /\ pc = "get"
    /\ \E b \in (IF again THEN {doc} ELSE Answers(pdu)) : doc' = b
    /\ same' = again
    /\ again' = FALSE
    /\ net' = "response"
    /\ resp' = Bound
    /\ pc' = "parse"
    /\ UNCHANGED <<di, ci, oi, ai, store, exc, startStore, warned, lastGood>>
    /\ UNCHANGED <<deviceSets, outletSets, pdu, scraped>>

\* A fetch() that answers a ConnectionError with another GET.
GetConnectionErrorRetry ==
    /\ pc = "get"
    /\ net' = "connection_error"
    /\ pc' = "get"
    /\ warned' = TRUE
    /\ UNCHANGED <<resp, doc, di, ci, oi, ai, store, exc, startStore,
                   same, again, lastGood>>
    /\ UNCHANGED <<deviceSets, outletSets, pdu, scraped>>

\* requests.get raises requests.ConnectionError (refused, DNS failure,
\* connect timeout), which fetch() catches.
GetConnectionError ==
    /\ pc = "get"
    /\ net' = "connection_error"
    /\ pc' = "except"
    /\ UNCHANGED <<resp, doc, di, ci, oi, ai, store, exc, startStore, warned,
                   same, again, lastGood>>
    /\ UNCHANGED <<deviceSets, outletSets, pdu, scraped>>

\* requests.get raises requests.ReadTimeout, which is no ConnectionError.
GetReadTimeout ==
    /\ pc = "get"
    /\ net' = "read_timeout"
    /\ Raise("ReadTimeout")
    /\ UNCHANGED <<resp, doc, store, startStore, warned, same, again, lastGood>>
    /\ UNCHANGED <<deviceSets, outletSets, pdu, scraped>>

\* A handler that also drops every label-set when the PDU is unreachable.
ExceptClearing ==
    /\ pc = "except"
    /\ warned' = TRUE
    /\ pc' = "parse"
    /\ store' = [m \in Instruments |-> <<>>]
    /\ UNCHANGED <<net, resp, doc, di, ci, oi, ai, exc, startStore, same, again,
                   lastGood>>
    /\ UNCHANGED <<deviceSets, outletSets, pdu, scraped>>

\* except requests.ConnectionError: log a warning, and go on after the try.
Except ==
    /\ pc = "except"
    /\ warned' = TRUE
    /\ pc' = "parse"
    /\ UNCHANGED <<net, resp, doc, di, ci, oi, ai, store, exc, startStore, same, again,
                   lastGood>>
    /\ UNCHANGED <<deviceSets, outletSets, pdu, scraped>>

\* root = ET.fromstring(resp.text)
Parse ==
    /\ pc = "parse"
    /\ IF resp = Unbound THEN Raise("UnboundLocalError")
       ELSE IF ~doc.xml THEN Raise("ParseError")
       ELSE Goto("devices", 0, 0, 0, 0) /\ UNCHANGED exc
    /\ UNCHANGED <<net, resp, doc, store, startStore, warned, same, again, lastGood>>
    /\ UNCHANGED <<deviceSets, outletSets, pdu, scraped>>

\* devices = root.find("devices"); for device in devices
FindDevices ==
    /\ pc = "devices"
    /\ IF Find(Root, "devices") = 0 THEN Raise("TypeError")
       ELSE NextDevice(1) /\ UNCHANGED exc
    /\ UNCHANGED <<net, resp, doc, store, startStore, warned, same, again, lastGood>>
    /\ UNCHANGED <<deviceSets, outletSets, pdu, scraped>>

\* process_device, up to the loop over the device's children.
ProcessDevice ==
    /\ pc = "device"
    /\ IF "type" \notin DOMAIN Device.attrib THEN Raise("KeyError")
       ELSE IF ~HasOutlets(Device) THEN NextDevice(di + 1) /\ UNCHANGED exc
       ELSE IF ~(Range(device_labels) \subseteq DOMAIN Device.attrib)
            THEN Raise("KeyError")
       ELSE NextChild(1) /\ UNCHANGED exc
    /\ UNCHANGED <<net, resp, doc, store, startStore, warned, same, again, lastGood>>
    /\ UNCHANGED <<deviceSets, outletSets, pdu, scraped>>

\* One child of the device: skipped unless it is a field with a known key;
\* for such a field, metric.labels(**device_labels).
ProcessChild ==
    /\ pc = "child"
    /\ IF Child.tag # "field"
       THEN NextChild(ci + 1) /\ UNCHANGED <<exc, store>>
       ELSE IF "key" \notin DOMAIN Child.attrib
       THEN Raise("KeyError") /\ UNCHANGED store
       ELSE IF DeviceMetric(Child.attrib.key) = None
       THEN NextChild(ci + 1) /\ UNCHANGED <<exc, store>>
       ELSE /\ store' = Labels(store, DeviceMetric(Child.attrib.key), DeviceLabels)
            /\ Goto("set", di, ci, 0, 0)
            /\ UNCHANGED exc
    /\ UNCHANGED <<net, resp, doc, startStore, warned, same, again, lastGood>>
    /\ UNCHANGED <<deviceSets, outletSets, pdu, scraped>>

\* .set(float(child.attrib["value"]))
FieldSet ==
    /\ pc = "set"
    /\ IF "value" \notin DOMAIN Child.attrib
       THEN Raise("KeyError") /\ UNCHANGED <<store, deviceSets>>
       ELSE IF ParseFloat(Child.attrib.value) = ValueError
       THEN Raise("ValueError") /\ UNCHANGED <<store, deviceSets>>
       ELSE /\ store' = GaugeSet(store, DeviceMetric(Child.attrib.key),
                                 DeviceLabels, ParseFloat(Child.attrib.value))
            /\ deviceSets' = deviceSets + 1
            /\ NextChild(ci + 1)
            /\ UNCHANGED exc
    /\ UNCHANGED outletSets
    /\ UNCHANGED <<net, resp, doc, startStore, warned, same, again, lastGood>>
    /\ UNCHANGED <<pdu, scraped>>

\* process_outlet, up to the loop over the outlet metrics.
ProcessOutlet ==
    /\ pc = "outlet"
    /\ IF "num" \notin DOMAIN Outlet.attrib THEN Raise("KeyError")
       ELSE IF ~(Range(outlet_labels) \subseteq DOMAIN Outlet.attrib)
       THEN Raise("KeyError")
       ELSE Goto("metric", di, 0, oi, 1) /\ UNCHANGED exc
    /\ UNCHANGED <<net, resp, doc, store, startStore, warned, same, again, lastGood>>
    /\ UNCHANGED <<deviceSets, outletSets, pdu, scraped>>

\* metric.labels(**outlet_labels)
OutletMetricLabels ==
    /\ pc = "metric"
    /\ store' = Labels(store, outlet_metrics[ai].metric, OutletLabels)
    /\ Goto("metric_set", di, 0, oi, ai)
    /\ UNCHANGED <<net, resp, doc, exc, startStore, warned, same, again, lastGood>>
    /\ UNCHANGED <<deviceSets, outletSets, pdu, scraped>>

\* .set(float(outlet.attrib[attr]))
OutletMetricSet ==
    /\ pc = "metric_set"
    /\ LET attr == outlet_metrics[ai].attr
       IN  IF attr \notin DOMAIN Outlet.attrib
           THEN Raise("KeyError") /\ UNCHANGED <<store, outletSets>>
           ELSE IF ParseFloat(Outlet.attrib[attr]) = ValueError
           THEN Raise("ValueError") /\ UNCHANGED <<store, outletSets>>
           ELSE /\ store' = GaugeSet(store, outlet_metrics[ai].metric,
                                     OutletLabels, ParseFloat(Outlet.attrib[attr]))
                /\ outletSets' = outletSets + 1
                /\ IF ai < Len(outlet_metrics)
                   THEN Goto("metric", di, 0, oi, ai + 1)
                   ELSE Goto("status", di, 0, oi, 0)
                /\ UNCHANGED exc
    /\ UNCHANGED <<net, resp, doc, startStore, warned, same, again, lastGood>>
    /\ UNCHANGED <<pdu, scraped>>
    /\ UNCHANGED deviceSets

\* self.outlet_status.labels(**outlet_labels)
OutletStatusLabels ==
    /\ pc = "status"
    /\ store' = Labels(store, outlet_status, OutletLabels)
    /\ Goto("state", di, 0, oi, 0)
    /\ UNCHANGED <<net, resp, doc, exc, startStore, warned, same, again, lastGood>>
    /\ UNCHANGED <<deviceSets, outletSets, pdu, scraped>>

\* .state(outlet.attrib["status"])
OutletStatusState ==
    /\ pc = "state"
    /\ IF "status" \notin DOMAIN Outlet.attrib
       THEN Raise("KeyError") /\ UNCHANGED <<store, outletSets>>
       ELSE IF Outlet.attrib.status \notin Range(states)
       THEN Raise("ValueError") /\ UNCHANGED <<store, outletSets>>
       ELSE /\ store' = EnumState(store, OutletLabels, Outlet.attrib.status)
            /\ outletSets' = outletSets + 1
            /\ NextOutlet(oi + 1)
            /\ UNCHANGED exc
    /\ UNCHANGED <<net, resp, doc, startStore, warned, same, again, lastGood>>
    /\ UNCHANGED <<pdu, scraped>>
    /\ UNCHANGED deviceSets

\* The outlets of a document with the label-sets they are published under,
\* in document order.
RECURSIVE Flatten(_)
Flatten(ss) == IF ss = <<>> THEN <<>> ELSE Head(ss) \o Flatten(Tail(ss))

OutletsIn(root) ==
    IF Find(root, "devices") = 0 THEN <<>>
    ELSE Flatten([d \in DOMAIN DevicesOf(root) |->
            LET dev == DevicesOf(root)[d]
            IN  IF ~HasOutlets(dev) THEN <<>>
                ELSE [o \in DOMAIN OutletsOf(dev) |->
                        [labels |-> Merge(LabelsOf(OutletsOf(dev)[o], outlet_labels),
                                          LabelsOf(dev, device_labels)),
                         status |-> OutletsOf(dev)[o].attrib.status]]])

\* label-set -> the status of the last outlet of the document with it
StatusIn(root) ==
    LET os == OutletsIn(root)
    IN  [l \in {os[i].labels : i \in DOMAIN os} |->
            os[CHOOSE i \in DOMAIN os :
                 /\ os[i].labels = l
                 /\ \A j \in DOMAIN os : os[j].labels = l => j <= i].status]

\* process() has returned: log the duration.  Whether the PDU's state, and
\* with it its next response, stays as it is, is decided here.
Done ==
    /\ pc = "done"
    /\ pc' = "sleep"
    /\ lastGood' = StatusIn(Root) @@ lastGood
    /\ again' \in BOOLEAN
    /\ doc' = IF again' THEN doc ELSE NoBody
    /\ UNCHANGED <<net, resp, di, ci, oi, ai, store, exc, startStore, warned, same>>
    /\ deviceSets' = 0
    /\ outletSets' = 0
    /\ UNCHANGED <<pdu, scraped>>

\* time.sleep(polling_interval_seconds), and around the loop.
Sleep ==
    /\ pc = "sleep"
    /\ pc' = "loop"
    /\ UNCHANGED <<net, resp, doc, di, ci, oi, ai, store, exc, startStore, warned,
                   same, again, lastGood>>
    /\ UNCHANGED <<deviceSets, outletSets, pdu, scraped>>

Next ==
    \/ Loop
    \/ GetResponse
    \/ GetConnectionError
    \/ GetReadTimeout
    \/ Except
    \/ Parse
    \/ FindDevices
    \/ ProcessDevice
    \/ ProcessChild
    \/ FieldSet
    \/ ProcessOutlet
    \/ OutletMetricLabels
    \/ OutletMetricSet
    \/ OutletStatusLabels
    \/ OutletStatusState
    \/ Done
    \/ Sleep

Spec == Init /\ [][Next]_vars

(***************************************************************************)
(* A PDU whose devices carry every recognized key.                         *)
(***************************************************************************)
InitFull == Start /\ pdu = "full"

SpecFull == InitFull /\ [][Next]_vars

(***************************************************************************)
(* The metrics server answers scrapes while the poll loop runs: a scrape   *)
(* reads the samples one at a time, each under the lock of its child.      *)
(***************************************************************************)
Scrape ==
    /\ pc # "crashed"
    /\ scraped = NoSample
    /\ \E m \in Instruments :
          \E l \in DOMAIN store[m] :
              scraped' = [metric |-> m, labels |-> l, value |-> store[m][l]]
    /\ UNCHANGED <<pc, net, resp, doc, di, ci, oi, ai, store, exc, startStore,
                   warned, same, again, lastGood, deviceSets, outletSets, pdu>>

Respond ==
    /\ scraped # NoSample
    /\ scraped' = NoSample
    /\ UNCHANGED <<pc, net, resp, doc, di, ci, oi, ai, store, exc, startStore,
                   warned, same, again, lastGood, deviceSets, outletSets, pdu>>

InitScrape == Start /\ pdu = "small"

NextScrape == Next \/ Scrape \/ Respond

SpecScrape == InitScrape /\ [][NextScrape]_vars

TypeOK ==
    /\ pc \in {"loop", "get", "except", "parse", "devices", "device", "child",
               "set", "outlet", "metric", "metric_set", "status", "state",
               "done", "sleep", "crashed"}
    /\ net \in {"pending", "response", "connection_error", "read_timeout"}
    /\ DOMAIN store = Instruments

(***************************************************************************)
(* What a document asks to be published.                                   *)
(***************************************************************************)
HasDevices == doc # NoBody /\ doc.xml /\ Find(Root, "devices") # 0

\* The children of a device that are fields with a recognized key and a
\* numeric value.
Readings(dev) ==
    {i \in DOMAIN dev.children :
        /\ dev.children[i].tag = "field"
        /\ {"key", "value"} \subseteq DOMAIN dev.children[i].attrib
        /\ dev.children[i].attrib.key \in DOMAIN device_metrics
        /\ ParseFloat(dev.children[i].attrib.value) # ValueError}

\* The last of them for each key.
LastReadings(dev) ==
    {i \in Readings(dev) :
        \A j \in Readings(dev) :
            dev.children[j].attrib.key = dev.children[i].attrib.key => j <= i}

\* The device's reading i is what its gauge holds at the device's label-set.
Published(dev, i) ==
    LET gauge == device_metrics[dev.children[i].attrib.key]
        l     == LabelsOf(dev, device_labels)
    IN  /\ l \in DOMAIN store[gauge]
        /\ store[gauge][l] = ParseFloat(dev.children[i].attrib.value)

Labelled(dev) == Range(device_labels) \subseteq DOMAIN dev.attrib

FetchFailed == net \in {"connection_error", "read_timeout"}

(***************************************************************************)
(* C1: no error escapes the export loop: whatever a cycle meets, process() *)
(* returns and the loop goes on to sleep and to the next cycle.            *)
(***************************************************************************)
C1_NoErrorEscapesLoop == pc # "crashed"

(***************************************************************************)
(* C2: in a cycle whose GET fails at the connection level, every           *)
(* instrument keeps the label-sets and values it had when the cycle began. *)
(***************************************************************************)
C2_FailedFetchKeepsStore == FetchFailed => store = startStore

C2_Witness ==
    /\ net = "connection_error"
    /\ pc = "crashed"
    /\ store["pdu_realpower"] # <<>>
    /\ store[outlet_status] # <<>>

(***************************************************************************)
(* C3: when the GET fails at the connection level, fetch() hands its       *)
(* caller a "no document" outcome and the parsing step is not entered:     *)
(* control is at the parse only in a cycle whose GET returned a response,  *)
(* and the failure raises nothing.                                         *)
(***************************************************************************)
C3_FailedGetSkipsParsing == FetchFailed => (pc # "parse" /\ exc = None)

(***************************************************************************)
(* C4: a body that is no XML, or has no devices container, ends the cycle  *)
(* with process() returning and every instrument as it was when the cycle  *)
(* began.                                                                  *)
(***************************************************************************)
C4_BadBodyAbandonsCycle ==
    (net = "response" /\ doc # NoBody /\ ~HasDevices)
        => (exc = None /\ store = startStore)

(***************************************************************************)
(* C5: when process() has returned, every device of the document that has  *)
(* no outlets container has its recognized fields in their gauges at the   *)
(* device's label-set, and no error was raised.                            *)
(***************************************************************************)
C5_DeviceWithoutOutletsPublishesFields ==
    (pc = "done" /\ HasDevices) =>
        \A d \in DOMAIN DevicesOf(Root) :
            LET dev == DevicesOf(Root)[d]
            IN  (Find(dev, "outlets") = 0 /\ Labelled(dev)) =>
                    \A i \in LastReadings(dev) : Published(dev, i)

(***************************************************************************)
(* C6: when process() has returned on a well-formed document, every        *)
(* recognized field of every device is what its gauge holds at the         *)
(* device's label-set (the last occurrence of a repeated key).             *)
(***************************************************************************)
C6_DocumentValuesPublished ==
    (pc = "done" /\ HasDevices /\ Root \in GoodRoots) =>
        \A d \in DOMAIN DevicesOf(Root) :
            \A i \in LastReadings(DevicesOf(Root)[d]) :
                Published(DevicesOf(Root)[d], i)

(***************************************************************************)
(* C7: between polls, pdu_outlet_status holds exactly the outlet           *)
(* label-sets of the documents processed so far, each in the state (On or  *)
(* Off) that the most recent of these documents with that outlet gave it;  *)
(* and a label-set of pdu_outlet_status is at any time in exactly one of   *)
(* the two states.                                                         *)
(***************************************************************************)
C7_StatusIsLatest ==
    /\ \A l \in DOMAIN store[outlet_status] :
          store[outlet_status][l] \in 0..(Len(states) - 1)
    /\ pc \in {"sleep", "loop"} =>
          /\ DOMAIN store[outlet_status] = DOMAIN lastGood
          /\ \A l \in DOMAIN lastGood :
                StateName(store[outlet_status][l]) = lastGood[l]

\* An outlet that read On when the cycle began reads Off after it.
C7_Witness ==
    /\ pc = "sleep"
    /\ \E l \in DOMAIN startStore[outlet_status] :
          /\ StateName(startStore[outlet_status][l]) = "On"
          /\ lastGood[l] = "Off"
          /\ StateName(store[outlet_status][l]) = "Off"

(***************************************************************************)
(* C8: a cycle that processes the document of the cycle before it once     *)
(* more ends with the store that cycle left.                               *)
(***************************************************************************)
C8_Idempotent == (pc = "done" /\ same) => store = startStore

C8_Witness ==
    /\ pc = "done"
    /\ same
    /\ store["pdu_realpower"] # <<>>
    /\ store[outlet_status] # <<>>
    /\ store["pdu_outlet_watts"] # <<>>

(***************************************************************************)
(* C9: a field whose key is none of the ten recognized keys is skipped:    *)
(* the step that handles it raises nothing and leaves every instrument as  *)
(* it is; and the instruments are the same fourteen in every state.        *)
(***************************************************************************)
UnknownKeyAtHand ==
    /\ pc = "child"
    /\ Child.tag = "field"
    /\ "key" \in DOMAIN Child.attrib
    /\ Child.attrib.key \notin DOMAIN device_metrics

C9_UnknownKeySkipped ==
    /\ [](DOMAIN store = Instruments /\ Cardinality(Instruments) = 14)
    /\ [][UnknownKeyAtHand => (store' = store /\ exc' = None /\ pc' # "crashed")]_vars

\* A walk that went past an unrecognized field and came to its end.
C9_Witness ==
    /\ pc = "done"
    /\ HasDevices
    /\ \E d \in DOMAIN DevicesOf(Root) :
          LET dev == DevicesOf(Root)[d]
          IN  /\ HasOutlets(dev)
              /\ \E i \in DOMAIN dev.children :
                    /\ dev.children[i].tag = "field"
                    /\ dev.children[i].attrib.key = "Foo-Bar"
    /\ store[outlet_status] # <<>>

(***************************************************************************)
(* C10: when an outlet's status is neither On nor Off, pdu_outlet_status   *)
(* at that outlet's label-set is as it was when the cycle began: in the    *)
(* same state if the label-set existed, absent if it did not.              *)
(***************************************************************************)
BadStatusAtHand ==
    /\ pc \in {"state", "crashed"}
    /\ oi > 0
    /\ ai = 0
    /\ "status" \in DOMAIN Outlet.attrib
    /\ Outlet.attrib.status \notin Range(states)

C10_BadStatusLeavesInstrument ==
    BadStatusAtHand =>
        /\ OutletLabels \in DOMAIN store[outlet_status]
              <=> OutletLabels \in DOMAIN startStore[outlet_status]
        /\ OutletLabels \in DOMAIN startStore[outlet_status] =>
              store[outlet_status][OutletLabels]
                  = startStore[outlet_status][OutletLabels]

(***************************************************************************)
(* C11: when an outlet of the document lacks amps, kwatthrs or watts, the  *)
(* cycle still publishes every other outlet of the document: when the      *)
(* cycle has ended, each outlet that is sound has its three readings and   *)
(* its status in the instruments at its label-set.                         *)
(***************************************************************************)
NumericAttrs == {outlet_metrics[i].attr : i \in DOMAIN outlet_metrics}

LacksNumeric(o) == ~(NumericAttrs \subseteq DOMAIN o.attrib)

SoundOutlet(o) ==
    /\ Range(outlet_labels) \cup NumericAttrs \cup {"status"} \subseteq DOMAIN o.attrib
    /\ \A a \in NumericAttrs : ParseFloat(o.attrib[a]) # ValueError
    /\ o.attrib.status \in Range(states)

OutletPublished(dev, o) ==
    LET l == Merge(LabelsOf(o, outlet_labels), LabelsOf(dev, device_labels))
    IN  /\ \A i \in DOMAIN outlet_metrics :
              /\ l \in DOMAIN store[outlet_metrics[i].metric]
              /\ store[outlet_metrics[i].metric][l]
                    = ParseFloat(o.attrib[outlet_metrics[i].attr])
        /\ l \in DOMAIN store[outlet_status]
        /\ StateName(store[outlet_status][l]) = o.attrib.status

CycleEnded == net = "response" /\ pc \in {"done", "crashed"}

C11_MissingAttributeSkipsOnlyOutlet ==
    (CycleEnded /\ HasDevices
       /\ \E d \in DOMAIN DevicesOf(Root) :
             /\ HasOutlets(DevicesOf(Root)[d])
             /\ \E o \in DOMAIN OutletsOf(DevicesOf(Root)[d]) :
                   LacksNumeric(OutletsOf(DevicesOf(Root)[d])[o]))
    => \A d \in DOMAIN DevicesOf(Root) :
          LET dev == DevicesOf(Root)[d]
          IN  (HasOutlets(dev) /\ Labelled(dev)) =>
                  \A o \in DOMAIN OutletsOf(dev) :
                      SoundOutlet(OutletsOf(dev)[o]) => OutletPublished(dev, OutletsOf(dev)[o])

(***************************************************************************)
(* C12: one process() call on a document of N devices, each with every     *)
(* recognized key once and M outlets, makes N x 10 device gauge set calls  *)
(* and N x M x (3 + 1) outlet gauge and status calls.                      *)
(***************************************************************************)
OutletCount(dev) ==
    IF Find(dev, "outlets") = 0 THEN 0 ELSE Len(OutletsOf(dev))

\* M of a document whose devices all have M outlets.
UniformOutlets(root) ==
    IF DevicesOf(root) = <<>> THEN 0 ELSE OutletCount(DevicesOf(root)[1])

C12_SetCounts ==
    (pc = "done" /\ HasDevices /\ Root \in FullRoots) =>
        /\ deviceSets = Len(DevicesOf(Root)) * Cardinality(DOMAIN device_metrics)
        /\ outletSets = Len(DevicesOf(Root)) * UniformOutlets(Root)
                            * (Len(outlet_metrics) + 1)

(***************************************************************************)
(* C13: a label-set, once created, is never removed, and its value changes *)
(* only by a set/state call on that very label-set: a device or outlet     *)
(* absent from later documents keeps its last value.                       *)
(***************************************************************************)
WrittenAtHand(m, l) ==
    \/ pc = "set" /\ m = DeviceMetric(Child.attrib.key) /\ l = DeviceLabels
    \/ pc = "metric_set" /\ m = outlet_metrics[ai].metric /\ l = OutletLabels
    \/ pc = "state" /\ m = outlet_status /\ l = OutletLabels

C13_LabelSetsKept ==
    [][\A m \in Instruments : \A l \in DOMAIN store[m] :
          /\ l \in DOMAIN store'[m]
          /\ store'[m][l] # store[m][l] => WrittenAtHand(m, l)]_vars

\* A cycle has published a document, and a gauge still holds the value of
\* a device that this document no longer lists.
C13_Witness ==
    /\ pc = "done" /\ HasDevices /\ deviceSets > 0
    /\ \E m \in DeviceGauges : \E l \in DOMAIN store[m] :
          /\ \A d \in DOMAIN DevicesOf(Root) :
                "id" \in DOMAIN DevicesOf(Root)[d].attrib
                    => DevicesOf(Root)[d].attrib.id # l.id
          /\ store[m][l] = startStore[m][l]

(***************************************************************************)
(* C14: every label-set of a device gauge has exactly the keys id and      *)
(* type; every label-set of an outlet gauge or of pdu_outlet_status has    *)
(* exactly name, num, url, id and type, with id and type those of the      *)
(* device that contains the outlet; the two key sets are disjoint, so the  *)
(* merge gives the same label-set in either order.                         *)
(***************************************************************************)
DeviceKeys == {"id", "type"}

OutletKeys == {"name", "num", "url", "id", "type"}

OutletAtHand == pc \in {"metric_set", "state"}

InstrumentAtHand ==
    IF pc = "metric_set" THEN outlet_metrics[ai].metric ELSE outlet_status

C14_LabelKeys ==
    /\ \A m \in DeviceGauges : \A l \in DOMAIN store[m] : DOMAIN l = DeviceKeys
    /\ \A m \in OutletGauges \cup {outlet_status} :
          \A l \in DOMAIN store[m] : DOMAIN l = OutletKeys
    /\ Range(outlet_labels) \cap Range(device_labels) = {}
    /\ OutletAtHand =>
          /\ \E l \in DOMAIN store[InstrumentAtHand] :
                /\ \A k \in Range(outlet_labels) : l[k] = Outlet.attrib[k]
                /\ \A k \in Range(device_labels) : l[k] = Device.attrib[k]
          /\ LabelsOf(Outlet, outlet_labels) @@ LabelsOf(Device, device_labels)
                = LabelsOf(Device, device_labels) @@ LabelsOf(Outlet, outlet_labels)

\* An outlet's status child is at hand while a device gauge holds a
\* label-set too.
C14_Witness ==
    /\ pc = "state"
    /\ store[outlet_status] # <<>>
    /\ \E m \in DeviceGauges : store[m] # <<>>

(***************************************************************************)
(* C15: a scrape that runs while a cycle is under way reads, at every      *)
(* instrument and label-set it finds, either what was there when the cycle *)
(* began or the value the document carries for it, never anything else.    *)
(***************************************************************************)
\* The document at hand carries v for instrument m at label-set l.
Carried(m, l, v) ==
    /\ HasDevices
    /\ \E d \in DOMAIN DevicesOf(Root) :
          LET dev == DevicesOf(Root)[d]
          IN  /\ Labelled(dev)
              /\ IF m \in DeviceGauges
                 THEN /\ l = LabelsOf(dev, device_labels)
                      /\ \E i \in Readings(dev) :
                            /\ device_metrics[dev.children[i].attrib.key] = m
                            /\ ParseFloat(dev.children[i].attrib.value) = v
                 ELSE /\ Find(dev, "outlets") # 0
                      /\ \E o \in DOMAIN OutletsOf(dev) :
                            LET out == OutletsOf(dev)[o]
                            IN  /\ Range(outlet_labels) \subseteq DOMAIN out.attrib
                                /\ l = LabelsOf(out, outlet_labels)
                                          @@ LabelsOf(dev, device_labels)
                                /\ IF m = outlet_status
                                   THEN /\ "status" \in DOMAIN out.attrib
                                        /\ out.attrib.status \in Range(states)
                                        /\ v = StateIndex(out.attrib.status)
                                   ELSE \E i \in DOMAIN outlet_metrics :
                                          /\ outlet_metrics[i].metric = m
                                          /\ outlet_metrics[i].attr \in DOMAIN out.attrib
                                          /\ ParseFloat(out.attrib[outlet_metrics[i].attr]) = v

BeforeOrNew(sample) ==
    \/ /\ sample.labels \in DOMAIN startStore[sample.metric]
       /\ sample.value = startStore[sample.metric][sample.labels]
    \/ Carried(sample.metric, sample.labels, sample.value)

ScrapeInCycle ==
    /\ scraped = NoSample
    /\ scraped' # NoSample
    /\ pc \notin {"sleep", "loop"}

Publishing ==
    {"devices", "device", "child", "set", "outlet", "metric", "metric_set",
     "status", "state", "done"}

Phase(p) ==
    CASE p = "loop" -> 0
      [] p \in {"get", "except"} -> 1
      [] p = "parse" -> 2
      [] p \in Publishing -> 3
      [] p = "sleep" -> 4
      [] OTHER -> 5

C16_PhaseOrder ==
    [][/\ pc' # "crashed" => Phase(pc') \in {Phase(pc), (Phase(pc) + 1) % 5}
       /\ pc' = "get" => pc = "loop"
       /\ pc' = "sleep" => pc = "done"
       /\ pc' = "loop" => pc = "sleep"
       /\ Phase(pc') = 3 => net = "response" /\ resp = Bound /\ doc.xml
       /\ store' # store => Phase(pc) = 3 /\ Phase(pc') \in {3, 5}]_vars

\* Back in Idle after a cycle that has published.
C16_Witness ==
    /\ pc = "loop"
    /\ net = "response"
    /\ \E m \in Instruments : store[m] # <<>>

(***************************************************************************)
(* C17: publishing follows document order and nothing is rolled back:      *)
(* devices in document order, a device's fields before its outlets, an     *)
(* outlet's amps, kwatthrs, watts before its status.  At every point of a  *)
(* cycle, and where it stops on an error, the assignments before that      *)
(* point hold their new values and every label-set after it is as the      *)
(* cycle found it.                                                         *)
(***************************************************************************)
Item(m, l, v, ok) == [metric |-> m, labels |-> l, value |-> v, ok |-> ok]

\* An element the walk stops at before it has an instrument at hand.
Stop == Item(None, <<>>, <<>>, FALSE)

Reading(attrib, a) == IF a \in DOMAIN attrib THEN ParseFloat(attrib[a]) ELSE ValueError

FieldItems(dev, child) ==
    IF child.tag # "field" THEN <<>>
    ELSE IF "key" \notin DOMAIN child.attrib THEN <<Stop>>
    ELSE IF child.attrib.key \notin DOMAIN device_metrics THEN <<>>
    ELSE <<Item(device_metrics[child.attrib.key], LabelsOf(dev, device_labels),
                Reading(child.attrib, "value"),
                Reading(child.attrib, "value") # ValueError)>>

OutletOrder == <<"amps", "kwatthrs", "watts">>

GaugeOf(attr) ==
    outlet_metrics[CHOOSE i \in DOMAIN outlet_metrics :
                       outlet_metrics[i].attr = attr].metric

OutletItems(dev, out) ==
    IF ~(Range(outlet_labels) \subseteq DOMAIN out.attrib) THEN <<Stop>>
    ELSE LET l  == LabelsOf(out, outlet_labels) @@ LabelsOf(dev, device_labels)
             ok == "status" \in DOMAIN out.attrib /\ out.attrib.status \in Range(states)
         IN  [i \in DOMAIN OutletOrder |->
                 Item(GaugeOf(OutletOrder[i]), l, Reading(out.attrib, OutletOrder[i]),
                      Reading(out.attrib, OutletOrder[i]) # ValueError)]
             \o <<Item(outlet_status, l,
                       IF ok THEN StateIndex(out.attrib.status) ELSE 0, ok)>>

DeviceItems(dev) ==
    IF "type" \notin DOMAIN dev.attrib THEN <<Stop>>
    ELSE IF Find(dev, "outlets") = 0 THEN <<>>
    ELSE IF dev.children[Find(dev, "outlets")].children = <<>> THEN <<>>
    ELSE IF ~Labelled(dev) THEN <<Stop>>
    ELSE Flatten([c \in DOMAIN dev.children |-> FieldItems(dev, dev.children[c])])
         \o Flatten([o \in DOMAIN OutletsOf(dev) |->
                        OutletItems(dev, OutletsOf(dev)[o])])

\* The assignments a document asks for, in the order of the claim.
ItemsIn(root) ==
    IF Find(root, "devices") = 0 THEN <<Stop>>
    ELSE Flatten([d \in DOMAIN DevicesOf(root) |-> DeviceItems(DevicesOf(root)[d])])

Put(st, it) ==
    [st EXCEPT ![it.metric] =
        [x \in DOMAIN @ \cup {it.labels} |-> IF x = it.labels THEN it.value ELSE @[x]]]

Created(st, it) ==
    [st EXCEPT ![it.metric] =
        [x \in DOMAIN @ \cup {it.labels} |->
            IF x \in DOMAIN @ THEN @[x] ELSE Default(it.metric)]]

RECURSIVE Apply(_, _)
Apply(st, its) == IF its = <<>> THEN st ELSE Apply(Put(st, Head(its)), Tail(its))

InWalk == net = "response" /\ doc.xml /\ pc \in Publishing \cup {"crashed"}

C17_DocumentOrderNoRollback ==
    InWalk =>
        LET its  == ItemsIn(Root)
            n    == deviceSets + outletSets
        IN  /\ n <= Len(its)
            /\ \A i \in 1..n : its[i].ok
            /\ LET base == Apply(startStore, SubSeq(its, 1, n))
               IN  \/ store = base
                   \/ /\ n < Len(its)
                      /\ its[n + 1].metric # None
                      /\ store = Created(base, its[n + 1])
            /\ pc = "crashed" => n < Len(its) /\ ~its[n + 1].ok
            /\ pc = "done" => n = Len(its)

\* A cycle has stopped on an error after it had made assignments, and the
\* document asks for more after the element it stopped at.
C17_Witness ==
    /\ InWalk /\ pc = "crashed"
    /\ deviceSets + outletSets > 0
    /\ store # startStore
    /\ deviceSets + outletSets + 1 < Len(ItemsIn(Root))

(***************************************************************************)
(* C18: no invented values.  When a cycle has ended, every value an        *)
(* instrument holds at a label-set was there before the cycle or is the    *)
(* value the cycle's document carries for that instrument and label-set:   *)
(* a failure leaves no new label-set behind at a default.                  *)
(***************************************************************************)
C18_NoInventedValues ==
    CycleEnded =>
        \A m \in Instruments : \A l \in DOMAIN store[m] :
            \/ l \in DOMAIN startStore[m] /\ store[m][l] = startStore[m][l]
            \/ Carried(m, l, store[m][l])

(***************************************************************************)
(* C19: process_device sets a device's field gauges in a cycle if and only *)
(* if the device has an outlets container with at least one child.  A      *)
(* device whose container is empty is left like one without a container:  *)
(* the call returns before any gauge is touched.                           *)
(***************************************************************************)
OutletChildren(dev) ==
    IF Find(dev, "outlets") = 0 THEN 0
    ELSE Len(dev.children[Find(dev, "outlets")].children)

InOutlets == pc \in {"outlet", "metric", "metric_set", "status", "state"}

C19_FieldsIffOutlets ==
    /\ [](/\ pc \in {"child", "set"} => OutletChildren(Device) >= 1
          /\ InOutlets => /\ OutletChildren(Device) >= 1
                          /\ \A i \in LastReadings(Device) : Published(Device, i))
    /\ [][(pc = "device" /\ OutletChildren(Device) = 0) =>
              /\ pc' \in {"device", "done", "crashed"}
              /\ store' = store
              /\ deviceSets' = deviceSets]_vars
    /\ [][(pc = "device" /\ OutletChildren(Device) >= 1) =>
              pc' \in {"child", "crashed"}]_vars

\* The walk has passed a device that has a sound field and an empty outlets
\* container, and the field's gauge holds nothing for it.
C19_Witness ==
    /\ pc = "done" /\ HasDevices
    /\ \E d \in DOMAIN DevicesOf(Root) :
          LET dev == DevicesOf(Root)[d]
          IN  /\ Labelled(dev)
              /\ Find(dev, "outlets") # 0
              /\ OutletChildren(dev) = 0
              /\ \E i \in Readings(dev) :
                    LabelsOf(dev, device_labels)
                        \notin DOMAIN store[device_metrics[dev.children[i].attrib.key]]

====
